---- MODULE Spec2Model ----
(***************************************************************************)
(* eqvnc: a VNC viewer on top of Equalizer (src/eqvnc.cpp).                *)
(*                                                                         *)
(* The application node owns the master eq_frame_data (desktop size,       *)
(* framebuffer, canvas rectangle, dirty rectangles).  libvncclient calls   *)
(* vnc_resize and vnc_update on it, main() commits it once per loop        *)
(* iteration, and every eq_pipe holds a slave instance that it syncs to    *)
(* the frame's version in frameStart.                                      *)
(*                                                                         *)
(* Conventions.  C++ arrays and vectors are 0-based, TLA+ sequences are    *)
(* 1-based: element i of a vector is element i + 1 of the sequence.  A     *)
(* float is modelled as an exact fraction << numerator, denominator >>.    *)
(* An access outside a vector is undefined behaviour and is modelled as a  *)
(* choice: the process crashes, or the read yields an arbitrary value and  *)
(* the write lands outside the vector.                                     *)
(***************************************************************************)
EXTENDS Integers, Sequences, FiniteSets, TLC

\* The server reports desktop widths and heights in 1..MaxDim.
MaxDim == 2

\* libvncclient makes at most MaxEvents callbacks (vnc_resize, vnc_update) in
\* a session, the resize of rfbInitClient being the first.
MaxEvents == 3

\* The session loop is followed for MaxFrames iterations.
MaxFrames == 2

\* The serialized instances have at most MaxRects dirty rectangles.
MaxRects == 2

\* The pointer positions of the events reach from -1 to MaxPointer.
MaxPointer == 4

\* The command lines at startup have at most MaxArgs words.
MaxArgs == 2

\* The rendering pipes of the cluster, each with its own eq_frame_data.
Pipes == {1, 2}

\* Pixel values (32 bit BGRA in the program).
Pixels == {0, 1}

\* The value of a read outside the framebuffer: it stands for any value, and
\* is no pixel value.
Indeterminate == -1

Dims == 1..MaxDim

\* The rectangles the server may report: any rectangle of the largest desktop.
\* For a smaller desktop some of them lie outside its bounds.
SourceRects ==
    { r \in [x : 0..(MaxDim - 1), y : 0..(MaxDim - 1), w : Dims, h : Dims] :
        r.x + r.w <= MaxDim /\ r.y + r.h <= MaxDim }

Screens == {"screen_canvas", "screen_wall", "screen_cylinder"}

\* Width and height of the wall of the first canvas of the configuration.
Surfaces == { << 16, 9 >>, << 1, 1 >> }

(***************************************************************************)
(* Fractions                                                               *)
(***************************************************************************)
\* The canvas array is not initialized by the constructor: each of its six
\* floats is indeterminate until startFrame (canvas mode) or applyInstanceData
\* stores a value.  NoValue stands for any such float; copying it yields
\* NoValue again, and it equals no value the program computes.  It is also
\* the result of a division by zero, and of arithmetic on NoValue.
NoValue == << 0, 0 >>

RECURSIVE Gcd(_, _)
Gcd(a, b) == IF b = 0 THEN a ELSE Gcd(b, a % b)

\* The fraction n / d in lowest terms; n and d are computed once.
Frac(n, d) ==
    LET Reduce(q) == IF q[2] = 0 THEN NoValue
                     ELSE LET g == Gcd(q[1], q[2]) IN << q[1] \div g, q[2] \div g >>
    IN  CHOOSE f \in { Reduce(q) : q \in { << n, d >> } } : TRUE

FracDiv(a, b) ==
    IF b[1] < 0 THEN Frac(0 - a[1] * b[2], 0 - a[2] * b[1])
    ELSE Frac(a[1] * b[2], a[2] * b[1])

FracSub(a, b) == Frac(a[1] * b[2] - b[1] * a[2], a[2] * b[2])

\* a >= b, which is false when a or b is no number.
FracGe(a, b) == a[2] # 0 /\ b[2] # 0 /\ a[1] * b[2] >= b[1] * a[2]

One == << 1, 1 >>

Two == << 2, 1 >>

GarbageCanvas == { [i \in 1..6 |-> NoValue] }

(***************************************************************************)
(* eq_frame_data                                                           *)
(***************************************************************************)
\* eq_frame_data::eq_frame_data()
eq_frame_data(cv) ==
    [ vnc_width |-> 0, vnc_height |-> 0, canvas |-> cv,
      vnc_framebuffer |-> << >>, vnc_dirty_rectangles |-> << >> ]

\* std::vector<unsigned int>::resize(n): keeps the first elements, value
\* initializes the new ones.
VectorResize(v, n) == [i \in 1..n |-> IF i <= Len(v) THEN v[i] ELSE 0]

\* vnc_framebuffer[i] as an rvalue
ReadPixel(fb, i) == IF i >= 0 /\ i < Len(fb) THEN fb[i + 1] ELSE Indeterminate

\* y * vnc_width + x in getInstanceData
OsIndexColMajor(vw, x, y) == x * vw + y
OsIndex(vw, x, y) == y * vw + x

\* The two loops over a rectangle in getInstanceData.
RECURSIVE OsRectPixels(_, _, _, _, _)
OsRectPixels(fb, vw, r, y, x) ==
    IF y >= r.y + r.h THEN << >>
    ELSE IF x >= r.x + r.w THEN OsRectPixels(fb, vw, r, y + 1, r.x)
    ELSE << ReadPixel(fb, OsIndex(vw, x, y)) >> \o OsRectPixels(fb, vw, r, y, x + 1)

\* The loop over the dirty rectangles in getInstanceData.
RECURSIVE OsRects(_, _, _, _)
OsRects(fb, vw, rects, i) ==
    IF i > Len(rects) THEN << >>
    ELSE LET r == rects[i]
         IN  << r.x, r.y, r.w, r.h >> \o OsRectPixels(fb, vw, r, r.y, r.x)
                \o OsRects(fb, vw, rects, i + 1)

\* eq_frame_data::getInstanceData: the values written to the stream, in order.
getInstanceData(fd) ==
    << fd.vnc_width, fd.vnc_height >> \o fd.canvas
        \o << Len(fd.vnc_dirty_rectangles) >>
        \o OsRects(fd.vnc_framebuffer, fd.vnc_width, fd.vnc_dirty_rectangles, 1)

\* The stream starts with vnc_width, vnc_height and the six canvas floats;
\* the rectangle count is its ninth value.
HeaderLen == 9

\* The positions of the stream that were read outside the framebuffer.
Holes(os) == { i \in (HeaderLen + 1)..Len(os) : os[i] = Indeterminate }

\* if (w != vnc_width || h != vnc_height) vnc_framebuffer.resize(w * h);
Realloc_fresh(fb, ow, oh, w, h) == [i \in 1..(w * h) |-> 0]
ReallocBoth(fb, ow, oh, w, h) ==
    IF w # ow /\ h # oh THEN VectorResize(fb, w * h) ELSE fb
Realloc(fb, ow, oh, w, h) ==
    IF w # ow \/ h # oh THEN VectorResize(fb, w * h) ELSE fb

\* y * vnc_width + x in applyInstanceData
IsIndexColMajor(vw, x, y) == x * vw + y
IsIndex(vw, x, y) == y * vw + x

\* is >> vnc_framebuffer[i]: st is the state of the read, [fb, pos, oob].
ReadInto(st, i, is) ==
    IF i >= 0 /\ i < Len(st.fb)
    THEN [st EXCEPT !.fb[i + 1] = is[st.pos], !.pos = @ + 1]
    ELSE [st EXCEPT !.oob = TRUE, !.pos = @ + 1]

\* The two loops over a rectangle in applyInstanceData.
RECURSIVE IsRectPixels(_, _, _, _, _, _)
IsRectPixels(st, vw, r, y, x, is) ==
    IF y >= r.y + r.h THEN st
    ELSE IF x >= r.x + r.w THEN IsRectPixels(st, vw, r, y + 1, r.x, is)
    ELSE IsRectPixels(ReadInto(st, IsIndex(vw, x, y), is), vw, r, y, x + 1, is)

\* The loop over the transmitted rectangles in applyInstanceData.
RECURSIVE IsRects(_, _, _, _, _)
IsRects(st, vw, is, i, n) ==
    IF i >= n THEN st
    ELSE LET r == [ x |-> is[st.pos], y |-> is[st.pos + 1],
                    w |-> is[st.pos + 2], h |-> is[st.pos + 3] ]
         IN  IsRects(IsRectPixels([st EXCEPT !.pos = @ + 4], vw, r, r.y, r.x, is),
                     vw, is, i + 1, n)

\* eq_frame_data::applyInstanceData: the instance after reading stream is, and
\* whether a pixel was written outside the framebuffer.
applyInstanceData(fd, is) ==
    LET w  == is[1]
        h  == is[2]
        st == IsRects([ fb  |-> Realloc(fd.vnc_framebuffer, fd.vnc_width, fd.vnc_height, w, h),
                        pos |-> HeaderLen + 1, oob |-> FALSE ],
                      w, is, 0, is[HeaderLen])
    IN  [ fd  |-> [ vnc_width |-> w, vnc_height |-> h,
                    canvas |-> SubSeq(is, 3, 8),
                    vnc_framebuffer |-> st.fb,
                    vnc_dirty_rectangles |-> fd.vnc_dirty_rectangles ],
          oob |-> st.oob ]

(***************************************************************************)
(* libvncclient callbacks                                                  *)
(***************************************************************************)
FullRect(w, h) == [x |-> 0, y |-> 0, w |-> w, h |-> h]

\* vnc_resize with the dirty list kept
vnc_resize_keep(fd, w, h) ==
    [fd EXCEPT !.vnc_width = w, !.vnc_height = h,
               !.vnc_framebuffer = VectorResize(@, w * h),
               !.vnc_dirty_rectangles = Append(@, FullRect(w, h))]
\* vnc_resize with the dirty list cleared after the push
vnc_resize_clear_last(fd, w, h) ==
    [fd EXCEPT !.vnc_width = w, !.vnc_height = h,
               !.vnc_framebuffer = VectorResize(@, w * h),
               !.vnc_dirty_rectangles = << >>]
\* vnc_resize: the frame data after the callback, client->width = w and
\* client->height = h.
vnc_resize(fd, w, h) ==
    [fd EXCEPT !.vnc_width = w, !.vnc_height = h,
               !.vnc_framebuffer = VectorResize(@, w * h),
               !.vnc_dirty_rectangles = << FullRect(w, h) >>]

\* vnc_update that keeps the last rectangle only
vnc_update_replace(fd, r) ==
    [fd EXCEPT !.vnc_dirty_rectangles = << r >>]
\* vnc_update: the frame data after the callback.
vnc_update(fd, r) ==
    [fd EXCEPT !.vnc_dirty_rectangles = Append(@, r)]

\* libvncclient decodes a rectangle into client->frameBuffer, which vnc_resize
\* points at vnc_framebuffer, before it calls GotFrameBufferUpdate: every
\* pixel of the rectangle changes (the pixel values being 0 and 1, to the other
\* value).  Pixels of the rectangle that are not pixels of the desktop are not
\* stored.
Decode(fd, r) ==
    [fd EXCEPT !.vnc_framebuffer =
        [i \in 1..Len(@) |->
            LET x == (i - 1) % fd.vnc_width
                y == (i - 1) \div fd.vnc_width
            IN  IF /\ r.x <= x /\ x < r.x + r.w
                   /\ r.y <= y /\ y < r.y + r.h
                THEN 1 - @[i] ELSE @[i]]]

(***************************************************************************)
(* eq_config::startFrame                                                   *)
(***************************************************************************)
\* The canvas array that always fills the width of the surface
CanvasFit_width(w, h, surf) ==
    LET c5 == FracDiv(Frac(surf[1], surf[2]), Frac(w, h))
    IN  << Frac(surf[1], 1), Frac(surf[2], 1),
           << 0, 1 >>, FracDiv(FracSub(One, c5), Two), One, c5 >>
\* The canvas array computed for the desktop w x h on the surface surf.
CanvasFit(w, h, surf) ==
    LET ar        == Frac(w, h)
        canvas_ar == Frac(surf[1], surf[2])
        c4 == IF FracGe(ar, canvas_ar) THEN One ELSE FracDiv(ar, canvas_ar)
        c5 == IF FracGe(ar, canvas_ar) THEN FracDiv(canvas_ar, ar) ELSE One
    IN  << Frac(surf[1], 1), Frac(surf[2], 1),
           FracDiv(FracSub(One, c4), Two), FracDiv(FracSub(One, c5), Two),
           c4, c5 >>

\* frame_data.commit() that skips an instance without dirty rectangles
commit_if_dirty(vs, inst) ==
    IF inst.os[HeaderLen] = 0 THEN vs ELSE Append(vs, inst)
\* frame_data.commit(): the instance data becomes the next version of the
\* object.  A version is [os, fd, log]: the stream written by getInstanceData,
\* and for reference the master instance and the callbacks since the previous
\* commit.
commit(vs, inst) == Append(vs, inst)

\* frame_data.vnc_dirty_rectangles.clear() left out of the loop
clear_nothing(fd) == fd
\* frame_data.vnc_dirty_rectangles.clear() at the end of a loop iteration.
clear(fd) == [fd EXCEPT !.vnc_dirty_rectangles = << >>]

(***************************************************************************)
(* Command line                                                            *)
(*                                                                         *)
(* An argument is the text "head,item,item,...": head is the text before   *)
(* the first comma, and an item is Float(n), text that %f converts to n,   *)
(* or Junk, text that %f does not convert.  An element of argv is          *)
(* [text, val]: text is "--view-only", "--screen", "--lookat", "--screen=" *)
(* or "--lookat=" with val the argument after the "=", or text is "" and   *)
(* val is the whole word.                                                  *)
(***************************************************************************)
Float(n) == << "f", n >>

Junk == << "s", 0 >>

IsFloat(t) == t[1] = "f"

Value(head, items) == [head |-> head, items |-> items]

NoItems == << >>

Arg(text, val) == [text |-> text, val |-> val]

Flag(text) == Arg(text, Value("", NoItems))

\* The string of argv element a as get_screen and get_lookat see it.
AsValue(a) == IF a.text = "" THEN a.val ELSE Value(a.text, NoItems)

\* The number of leading items that %f converts, at most n.
RECURSIVE Leading(_, _)
Leading(items, n) ==
    IF n = 0 \/ items = << >> THEN 0
    ELSE IF ~IsFloat(Head(items)) THEN 0
    ELSE 1 + Leading(Tail(items), n - 1)

\* std::sscanf(opt, "head,%f,...,%f", ...) with n conversions: the number of
\* floats stored.  Text after the last conversion is not looked at.
sscanf(opt, head, n) == IF opt.head = head THEN Leading(opt.items, n) ELSE 0

\* The floats stored by a sscanf that made k conversions.
Stored(def, opt, k) ==
    [i \in 1..10 |-> IF i <= k THEN Frac(opt.items[i][2], 1) ELSE def[i]]

\* deg_to_rad: the angle in units of pi.
deg_to_rad(deg) == Frac(deg[1], deg[2] * 180)

\* get_screen: whether opt was accepted, and screen and screen_def afterwards.
get_screen(opt, scr, def) ==
    LET w  == sscanf(opt, "wall", 9)
        dw == Stored(def, opt, w)
        c  == sscanf(opt, "cylinder", 10)
        dc == Stored(dw, opt, c)
    IN  IF opt.head = "canvas" /\ opt.items = << >>
        THEN [ok |-> TRUE, screen |-> "screen_canvas", screen_def |-> def]
        ELSE IF w = 9
        THEN [ok |-> TRUE, screen |-> "screen_wall", screen_def |-> dw]
        ELSE IF c = 10
        THEN [ok |-> TRUE, screen |-> "screen_cylinder",
              screen_def |-> [i \in 1..10 |-> IF i >= 8 THEN deg_to_rad(dc[i]) ELSE dc[i]]]
        ELSE [ok |-> FALSE, screen |-> scr, screen_def |-> dc]

\* dot, cross and the difference of two vectors; the vectors of the command
\* line have integer components.
dot(v, w) == v[1] * w[1] + v[2] * w[2] + v[3] * w[3]

cross(v, w) ==
    << v[2] * w[3] - v[3] * w[2], v[3] * w[1] - v[1] * w[3], v[1] * w[2] - v[2] * w[1] >>

Minus(v, w) == << v[1] - w[1], v[2] - w[2], v[3] - w[3] >>

\* v divided by its length, kept as << v, dot(v, v) >>.  The division of the
\* zero vector by its length 0 gives three NaN: << << 0, 0, 0 >>, 0 >>.
Normalized(v) == << v, dot(v, v) >>

IsNaN(n) == n[2] = 0

\* float head_matrix[16] = { 1, 0, 0, 0, 0, 1, 0, 0, 0, 0, 1, 0, 0, 0, 0, 1 }:
\* the columns s, u and -view of the upper three rows, and the last row.
IdentityMatrix ==
    [ s |-> Normalized(<< 1, 0, 0 >>), u |-> Normalized(<< 0, 1, 0 >>),
      view |-> Normalized(<< 0, 0, -1 >>), eye |-> << 0, 0, 0 >> ]

\* get_lookat: whether opt was accepted, and head_matrix afterwards.
get_lookat(opt, hm) ==
    IF sscanf(opt, "", 9) = 9
    THEN LET f(i)   == opt.items[i][2]
             eye    == << f(1), f(2), f(3) >>
             center == << f(4), f(5), f(6) >>
             up     == << f(7), f(8), f(9) >>
             view   == Minus(center, eye)
             \* cross(view / view_len, up), then divided by its length
             s      == cross(view, up)
             \* cross(s / s_len, view / view_len)
             u      == cross(s, view)
         IN  [ok |-> TRUE,
              head_matrix |->
                 [ s |-> Normalized(s),
                   u |-> << u, dot(s, s) * dot(view, view) >>,
                   view |-> Normalized(view), eye |-> eye ]]
    ELSE [ok |-> FALSE, head_matrix |-> hm]

\* The locals of main() before the loop over argv; screen_def is not
\* initialized.
MainLocals ==
    [ ret |-> "ok", view_only |-> FALSE, screen |-> "screen_canvas",
      screen_def |-> [i \in 1..10 |-> NoValue], head_matrix |-> IdentityMatrix ]

\* The loop over argv in main(), from argv[i] on: ret is "ok" when the loop
\* ended, "return 1" when an argument was refused, and "crashed" when the
\* option was the last element, its argument argv[argc] being NULL.
RECURSIVE options(_, _, _)
options(av, i, st) ==
    IF i > Len(av) THEN st
    ELSE IF av[i] = Flag("--view-only")
    THEN options(av, i + 1, [st EXCEPT !.view_only = TRUE])
    ELSE IF av[i].text \in {"--screen", "--screen="}
    THEN IF av[i].text = "--screen" /\ i = Len(av)
         THEN [st EXCEPT !.ret = "crashed"]
         ELSE LET opt == IF av[i].text = "--screen" THEN AsValue(av[i + 1]) ELSE av[i].val
                  g   == get_screen(opt, st.screen, st.screen_def)
                  n   == IF av[i].text = "--screen" THEN i + 2 ELSE i + 1
              IN  IF g.ok
                  THEN options(av, n, [st EXCEPT !.screen = g.screen,
                                                 !.screen_def = g.screen_def])
                  ELSE [st EXCEPT !.ret = "return 1", !.screen_def = g.screen_def]
    ELSE IF av[i].text \in {"--lookat", "--lookat="}
    THEN IF av[i].text = "--lookat" /\ i = Len(av)
         THEN [st EXCEPT !.ret = "crashed"]
         ELSE LET opt == IF av[i].text = "--lookat" THEN AsValue(av[i + 1]) ELSE av[i].val
                  g   == get_lookat(opt, st.head_matrix)
                  n   == IF av[i].text = "--lookat" THEN i + 2 ELSE i + 1
              IN  IF g.ok
                  THEN options(av, n, [st EXCEPT !.head_matrix = g.head_matrix])
                  ELSE [st EXCEPT !.ret = "return 1"]
    ELSE options(av, i + 1, st)

(***************************************************************************)
(* Input events                                                            *)
(***************************************************************************)
\* eq::KeyCode: the key codes of Equalizer that are no characters.
KC ==
    [ KC_ESCAPE |-> 256, KC_BACKSPACE |-> 257, KC_RETURN |-> 258, KC_TAB |-> 259,
      KC_HOME |-> 260, KC_LEFT |-> 261, KC_UP |-> 262, KC_RIGHT |-> 263,
      KC_DOWN |-> 264, KC_PAGE_UP |-> 265, KC_PAGE_DOWN |-> 266, KC_END |-> 267,
      KC_F1 |-> 268, KC_F2 |-> 269, KC_F3 |-> 270, KC_F4 |-> 271, KC_F5 |-> 272,
      KC_F6 |-> 273, KC_F7 |-> 274, KC_F8 |-> 275, KC_F9 |-> 276, KC_F10 |-> 277,
      KC_F11 |-> 278, KC_F12 |-> 279, KC_F13 |-> 280, KC_F14 |-> 281,
      KC_F15 |-> 282, KC_F16 |-> 283, KC_F17 |-> 284, KC_F18 |-> 285,
      KC_F19 |-> 286, KC_F20 |-> 287, KC_F21 |-> 288, KC_F22 |-> 289,
      KC_F23 |-> 290, KC_F24 |-> 291, KC_SHIFT_L |-> 292 ]

\* The X11 key symbols of libvncclient (0xff1b is 65307).
XK ==
    [ XK_BackSpace |-> 65288, XK_Tab |-> 65289, XK_Return |-> 65293,
      XK_Escape |-> 65307, XK_Home |-> 65360, XK_Left |-> 65361, XK_Up |-> 65362,
      XK_Right |-> 65363, XK_Down |-> 65364, XK_Page_Up |-> 65365,
      XK_Page_Down |-> 65366, XK_End |-> 65367,
      XK_F1 |-> 65470, XK_F2 |-> 65471, XK_F3 |-> 65472, XK_F4 |-> 65473,
      XK_F5 |-> 65474, XK_F6 |-> 65475, XK_F7 |-> 65476, XK_F8 |-> 65477,
      XK_F9 |-> 65478, XK_F10 |-> 65479, XK_F11 |-> 65480, XK_F12 |-> 65481,
      XK_F13 |-> 65482, XK_F14 |-> 65483, XK_F15 |-> 65484, XK_F16 |-> 65485,
      XK_F17 |-> 65486, XK_F18 |-> 65487, XK_F19 |-> 65488, XK_F20 |-> 65489,
      XK_F21 |-> 65490, XK_F22 |-> 65491, XK_F23 |-> 65492, XK_F24 |-> 65493 ]

\* eqkey_to_rfbkey without the translation of the special keys
eqkey_to_rfbkey_as_is(key) == key
\* eqkey_to_rfbkey: the key symbol for key.key.
eqkey_to_rfbkey(key) ==
    CASE key = KC.KC_ESCAPE    -> XK.XK_Escape
      [] key = KC.KC_BACKSPACE -> XK.XK_BackSpace
      [] key = KC.KC_RETURN    -> XK.XK_Return
      [] key = KC.KC_TAB       -> XK.XK_Tab
      [] key = KC.KC_HOME      -> XK.XK_Home
      [] key = KC.KC_LEFT      -> XK.XK_Left
      [] key = KC.KC_UP        -> XK.XK_Up
      [] key = KC.KC_RIGHT     -> XK.XK_Right
      [] key = KC.KC_DOWN      -> XK.XK_Down
      [] key = KC.KC_PAGE_UP   -> XK.XK_Page_Up
      [] key = KC.KC_PAGE_DOWN -> XK.XK_Page_Down
      [] key = KC.KC_END       -> XK.XK_End
      [] key = KC.KC_F1        -> XK.XK_F1
      [] key = KC.KC_F2        -> XK.XK_F2
      [] key = KC.KC_F3        -> XK.XK_F3
      [] key = KC.KC_F4        -> XK.XK_F4
      [] key = KC.KC_F5        -> XK.XK_F5
      [] key = KC.KC_F6        -> XK.XK_F6
      [] key = KC.KC_F7        -> XK.XK_F7
      [] key = KC.KC_F8        -> XK.XK_F8
      [] key = KC.KC_F9        -> XK.XK_F9
      [] key = KC.KC_F10       -> XK.XK_F10
      [] key = KC.KC_F11       -> XK.XK_F11
      [] key = KC.KC_F12       -> XK.XK_F12
      [] key = KC.KC_F13       -> XK.XK_F13
      [] key = KC.KC_F14       -> XK.XK_F14
      [] key = KC.KC_F15       -> XK.XK_F15
      [] key = KC.KC_F16       -> XK.XK_F16
      [] key = KC.KC_F17       -> XK.XK_F17
      [] key = KC.KC_F18       -> XK.XK_F18
      [] key = KC.KC_F19       -> XK.XK_F19
      [] key = KC.KC_F20       -> XK.XK_F20
      [] key = KC.KC_F21       -> XK.XK_F21
      [] key = KC.KC_F22       -> XK.XK_F22
      [] key = KC.KC_F23       -> XK.XK_F23
      [] key = KC.KC_F24       -> XK.XK_F24
      [] OTHER                 -> key

FracAdd(a, b) == Frac(a[1] * b[2] + b[1] * a[2], a[2] * b[2])

FracMul(a, b) == Frac(a[1] * b[1], a[2] * b[2])

\* The conversion of a float to int: the fraction is discarded.  The
\* conversion of a value that is no number is not defined by the language; the
\* conversion instruction of x86 gives the smallest int.
Trunc(f) ==
    IF f[2] = 0 THEN (0 - 2147483647) - 1
    ELSE IF f[1] >= 0 THEN f[1] \div f[2]
    ELSE 0 - ((0 - f[1]) \div f[2])

\* The two tests on x (and on y) in eqptr_to_rfbptr, the upper one left out
ClampLow(x, size) == IF x < 0 THEN 0 ELSE x
\* The two tests on x (and on y) in eqptr_to_rfbptr.
Clamp(x, size) ==
    LET x0 == IF x < 0 THEN 0 ELSE x
    IN  IF x0 > size - 1 THEN size - 1 ELSE x0

\* event_x and event_y of eqptr_to_rfbptr: the event position in VNC pixels.
EventPos(e, pvp, vp, canvas, vnc_width, vnc_height) ==
    LET event_channel_x == Frac(e.x, pvp.w)
        event_channel_y == Frac(e.y, pvp.h)
        event_canvas_x  == FracAdd(vp.x, FracMul(event_channel_x, vp.w))
        event_canvas_y  == FracSub(One, FracAdd(vp.y,
                               FracMul(FracSub(One, event_channel_y), vp.h)))
        event_canvas_area_x == FracDiv(FracSub(event_canvas_x, canvas[3]), canvas[5])
        event_canvas_area_y == FracDiv(FracSub(event_canvas_y, canvas[4]), canvas[6])
    IN  << FracMul(event_canvas_area_x, Frac(vnc_width, 1)),
           FracMul(event_canvas_area_y, Frac(vnc_height, 1)) >>

\* The button mask of eqptr_to_rfbptr, as the set of its bits.
Buttons(e) ==
    { b \in {"rfbButton1Mask", "rfbButton2Mask", "rfbButton3Mask",
             "rfbWheelUpMask", "rfbWheelDownMask"} :
        \/ b = "rfbButton1Mask" /\ "PTR_BUTTON1" \in e.buttons
        \/ b = "rfbButton2Mask" /\ "PTR_BUTTON2" \in e.buttons
        \/ b = "rfbButton3Mask" /\ "PTR_BUTTON3" \in e.buttons
        \/ b = "rfbWheelUpMask" /\ (e.xAxis > 0 \/ e.yAxis > 0)
        \/ b = "rfbWheelDownMask" /\ (e.xAxis < 0 \/ e.yAxis < 0) }

\* eqptr_to_rfbptr: x, y and buttons.
eqptr_to_rfbptr(e, pvp, vp, canvas, vnc_width, vnc_height) ==
    LET pos == EventPos(e, pvp, vp, canvas, vnc_width, vnc_height)
    IN  [ x |-> Clamp(Trunc(pos[1]), vnc_width),
          y |-> Clamp(Trunc(pos[2]), vnc_height),
          buttons |-> Buttons(e) ]

\* What handleEvent sends to the VNC server: nothing, SendKeyEvent(key, down)
\* or SendPointerEvent(x, y, buttons).
NoMessage ==
    [ type |-> "none", key |-> 0, down |-> FALSE, x |-> 0, y |-> 0, buttons |-> {} ]

SendKeyEvent(key, down) ==
    [ type |-> "key", key |-> key, down |-> down, x |-> 0, y |-> 0, buttons |-> {} ]

SendPointerEvent(x, y, buttons) ==
    [ type |-> "pointer", key |-> 0, down |-> FALSE, x |-> x, y |-> y,
      buttons |-> buttons ]

PointerTypes ==
    { "CHANNEL_POINTER_MOTION", "CHANNEL_POINTER_BUTTON_PRESS",
      "CHANNEL_POINTER_BUTTON_RELEASE", "CHANNEL_POINTER_WHEEL" }

\* The key codes of the key events: the special keys, characters, and a
\* code that is the number of a key symbol.
KeyCodes == { KC[k] : k \in DOMAIN KC } \cup {0, 97, XK.XK_Escape}

\* The positions of the pointer events, relative to the channel; a position
\* outside of the channel is possible while a button is held.
PointerXs == {-1, 0, 2, MaxPointer}

PointerYs == {-1, 1, MaxPointer - 2}

\* The pixel viewports of the channels.
PixelViewports == { [w |-> 4, h |-> 2] }

\* The viewports of the channels on the canvas: the whole canvas, its right
\* half.
Viewports ==
    { [x |-> << 0, 1 >>, y |-> << 0, 1 >>, w |-> One, h |-> One],
      [x |-> << 1, 2 >>, y |-> << 0, 1 >>, w |-> << 1, 2 >>, h |-> One] }

\* The kinds of pointer events: type, buttons, xAxis and yAxis.
PointerStates ==
    { [type |-> "CHANNEL_POINTER_MOTION", buttons |-> {}, xAxis |-> 0, yAxis |-> 0],
      [type |-> "CHANNEL_POINTER_BUTTON_PRESS", buttons |-> {"PTR_BUTTON1"},
       xAxis |-> 0, yAxis |-> 0],
      [type |-> "CHANNEL_POINTER_BUTTON_RELEASE",
       buttons |-> {"PTR_BUTTON2", "PTR_BUTTON3"}, xAxis |-> 0, yAxis |-> 0],
      [type |-> "CHANNEL_POINTER_WHEEL", buttons |-> {}, xAxis |-> 0, yAxis |-> 1],
      [type |-> "CHANNEL_POINTER_WHEEL", buttons |-> {"PTR_BUTTON1"},
       xAxis |-> -1, yAxis |-> 0] }

Event(type, key, x, y, b, pvp, vp) ==
    [ type |-> type, key |-> key, x |-> x, y |-> y, buttons |-> b.buttons,
      xAxis |-> b.xAxis, yAxis |-> b.yAxis, pvp |-> pvp, vp |-> vp ]

NoPointer == [buttons |-> {}, xAxis |-> 0, yAxis |-> 0]

KeyEvents ==
    { Event(t, k, 0, 0, NoPointer, [w |-> 1, h |-> 1], [x |-> One, y |-> One, w |-> One, h |-> One]) :
        t \in {"KEY_PRESS", "KEY_RELEASE"}, k \in KeyCodes }

PointerEvents ==
    { Event(b.type, 0, x, y, b, pvp, vp) :
        x \in PointerXs, y \in PointerYs, b \in PointerStates,
        pvp \in PixelViewports, vp \in Viewports }

OtherEvents ==
    { Event("WINDOW_EXPOSE", 0, 0, 0, NoPointer, [w |-> 1, h |-> 1],
            [x |-> One, y |-> One, w |-> One, h |-> One]) }

Events == KeyEvents \cup PointerEvents \cup OtherEvents

\* if (init_data.view_only) return false; if (!vnc_client) return false;
\* with the first test left out
Interactive_any(vo, client) == client
\* if (init_data.view_only) return false; if (!vnc_client) return false;
Interactive(vo, client) == ~vo /\ client

\* else if (init_data.screen == screen_canvas), the test left out
PointerMapped_any(scr) == TRUE
\* else if (init_data.screen == screen_canvas)
PointerMapped(scr) == scr = "screen_canvas"

\* eq_config::handleEvent with the key events below the test of the screen
handleEvent_canvas_keys(event, base, vo, scr, client, fd) ==
    IF base \/ ~Interactive(vo, client) THEN NoMessage
    ELSE IF ~PointerMapped(scr) THEN NoMessage
    ELSE IF event.type = "KEY_PRESS"
    THEN SendKeyEvent(eqkey_to_rfbkey(event.key), TRUE)
    ELSE IF event.type = "KEY_RELEASE"
    THEN SendKeyEvent(eqkey_to_rfbkey(event.key), FALSE)
    ELSE IF event.type \in PointerTypes
    THEN LET p == eqptr_to_rfbptr(event, event.pvp, event.vp, fd.canvas,
                                  fd.vnc_width, fd.vnc_height)
         IN  SendPointerEvent(p.x, p.y, p.buttons)
    ELSE NoMessage
\* eq_config::handleEvent: what is sent to the VNC server for event; base is
\* the result of eq::Config::handleEvent(event).
handleEvent(event, base, vo, scr, client, fd) ==
    IF base \/ ~Interactive(vo, client) THEN NoMessage
    ELSE IF event.type = "KEY_PRESS"
    THEN SendKeyEvent(eqkey_to_rfbkey(event.key), TRUE)
    ELSE IF event.type = "KEY_RELEASE"
    THEN SendKeyEvent(eqkey_to_rfbkey(event.key), FALSE)
    ELSE IF PointerMapped(scr) /\ event.type \in PointerTypes
    THEN LET p == eqptr_to_rfbptr(event, event.pvp, event.vp, fd.canvas,
                                  fd.vnc_width, fd.vnc_height)
         IN  SendPointerEvent(p.x, p.y, p.buttons)
    ELSE NoMessage

(***************************************************************************)
(* The window: class eq_window                                             *)
(***************************************************************************)
\* The image of an OpenGL texture object: its size and its texels.
NoTexture == [w |-> 0, h |-> 0, pixels |-> << >>]

\* glTexImage2D with a NULL pointer: a texture of w x h texels whose
\* contents are undefined.
glTexImage2D(w, h) ==
    [w |-> w, h |-> h, pixels |-> [i \in 1..(w * h) |-> Indeterminate]]

\* glTexSubImage2D of the area (0, 0, w, h) from the pixels at data: rows of
\* w pixels replace the first w texels of the texture's first h rows.
glTexSubImage2D(texture, w, h, data) ==
    [texture EXCEPT !.pixels =
        [i \in 1..Len(@) |->
            LET x == (i - 1) % texture.w
                y == (i - 1) \div texture.w
            IN  IF x < w /\ y < h
                THEN IF y * w + x + 1 <= Len(data) THEN data[y * w + x + 1]
                     ELSE Indeterminate
                ELSE @[i]]]

\* The constructor eq_window::eq_window sets tex and tex_updated; tex_w and
\* tex_h are left without a value.  texture is the image of the texture
\* named tex; uploads counts the glTexSubImage2D calls of the current frame,
\* created tells whether the current frame called glTexImage2D,
\* entry_updated is tex_updated as frameStart found it, pc is the position
\* of the window in its frame and frame the number of the window's last
\* frame.
eq_window ==
    [ tex |-> 0, tex_w |-> Indeterminate, tex_h |-> Indeterminate,
      tex_updated |-> FALSE,
      texture |-> NoTexture, uploads |-> 0, created |-> FALSE,
      entry_updated |-> FALSE, pc |-> "idle", frame |-> 0 ]

\* eq_window::frameStart with the pipe's frame_data fd: creates the texture
\* when there is none or its size differs from the desktop's, then uploads
\* the framebuffer unless tex_updated is set.
eq_window_frameStart(win, fd) ==
    LET create == \/ win.tex = 0
                  \/ win.tex_w # fd.vnc_width
                  \/ win.tex_h # fd.vnc_height
        a == IF create
             THEN [win EXCEPT !.tex = IF @ = 0 THEN 1 ELSE @,
                              !.texture = glTexImage2D(fd.vnc_width, fd.vnc_height),
                              !.tex_w = fd.vnc_width,
                              !.tex_h = fd.vnc_height,
                              !.tex_updated = FALSE,
                              !.created = TRUE]
             ELSE win
    IN  IF ~a.tex_updated
        THEN [a EXCEPT !.texture = glTexSubImage2D(@, fd.vnc_width, fd.vnc_height,
                                                   fd.vnc_framebuffer),
                       !.tex_updated = TRUE,
                       !.uploads = @ + 1]
        ELSE a

\* A frameFinish that leaves tex_updated as it is.
eq_window_frameFinish_keep(win) == win

\* eq_window::frameFinish.
eq_window_frameFinish(win) == [win EXCEPT !.tex_updated = FALSE]

(***************************************************************************)
(* State                                                                   *)
(***************************************************************************)
VARIABLES
    pc,               \* position of main() on the application node
    screen,           \* init_data.screen
    frame_data,       \* appnode_eq_config->frame_data, the master instance
    versions,         \* the committed versions of frame_data, oldest first
    frames,           \* frames[n]: the frame id passed to eq::Config::startFrame
    log,              \* the callbacks since the previous commit
    iter,             \* loop iterations begun
    events,           \* callbacks made by libvncclient
    pipe_frame_data,  \* eq_pipe::frame_data of every pipe, a slave instance
    pipe_version,     \* the version each slave instance holds
    pipe_pc,          \* every pipe thread: "running" or "crashed"
    pipe_frame,       \* the number of the last frame each pipe started
    window,           \* the eq_window of every pipe
    argv,             \* the command line of main(), argv[1] .. argv[argc - 1]
    view_only,        \* view_only of main(), init_data.view_only
    screen_def,       \* screen_def of main()
    head_matrix,      \* head_matrix of main()
    init_data,        \* the registered init_data, << >> before registerObject
    vnc_client,       \* whether the global vnc_client is set (not NULL)
    sent              \* what eq_config::handleEvent sent for the last event

vars == << pc, screen, frame_data, versions, frames, log, iter, events,
           pipe_frame_data, pipe_version, pipe_pc, pipe_frame, window,
           argv, view_only, screen_def, head_matrix, init_data,
           vnc_client, sent >>

cfgvars == << argv, view_only, screen_def, head_matrix, init_data >>

inputvars == << vnc_client, sent >>

appvars == << pc, screen, frame_data, versions, frames, log, iter, events >>

pipevars == << pipe_frame_data, pipe_version, pipe_pc, pipe_frame, window >>

\* The command lines of the sessions: one for every kind of screen.
WallArg ==
    Value("wall", << Float(-1), Float(-1), Float(-2), Float(1), Float(-1), Float(-2),
                     Float(-1), Float(1), Float(-2) >>)

CylinderArg ==
    Value("cylinder", << Float(0), Float(0), Float(0), Float(0), Float(1), Float(0),
                         Float(2), Float(0), Float(90), Float(45) >>)

Argvs ==
    { << >>, << Arg("--screen=", WallArg) >>, << Arg("--screen=", CylinderArg) >> }

\* sent before the first event: msg is what handleEvent sent for event, base
\* the result of eq::Config::handleEvent(event).
Nothing ==
    [ msg |-> NoMessage, base |-> TRUE,
      event |-> Event("", 0, 0, 0, NoPointer, [w |-> 1, h |-> 1],
                      [x |-> One, y |-> One, w |-> One, h |-> One]) ]

\* The state when main() starts on the command line av.
InitMain(av) ==
    /\ pc = "options"
    /\ argv = av
    /\ view_only = MainLocals.view_only
    /\ screen = MainLocals.screen
    /\ screen_def = MainLocals.screen_def
    /\ head_matrix = MainLocals.head_matrix
    /\ init_data = << >>
    /\ vnc_client = FALSE
    /\ sent = Nothing
    /\ frame_data \in { eq_frame_data(cv) : cv \in GarbageCanvas }
    /\ versions = << >>
    /\ frames = << >>
    /\ log = << >>
    /\ iter = 0
    /\ events = 0
    /\ pipe_frame_data \in [Pipes -> { eq_frame_data(cv) : cv \in GarbageCanvas }]
    /\ pipe_version = [p \in Pipes |-> 0]
    /\ pipe_pc = [p \in Pipes |-> "running"]
    /\ pipe_frame = [p \in Pipes |-> 0]
    /\ window = [p \in Pipes |-> eq_window]

Init == \E av \in Argvs : InitMain(av)

(***************************************************************************)
(* main() on the application node                                          *)
(***************************************************************************)
\* main() up to the end of the loop over argv: eq::init and eq::getConfig,
\* then the options.
main_options ==
    /\ pc = "options"
    /\ \E ok \in BOOLEAN :
          LET st == IF ok THEN options(argv, 1, MainLocals)
                    ELSE [MainLocals EXCEPT !.ret = "return 1"]
          IN  /\ pc' = CASE st.ret = "ok" -> "config_init"
                         [] st.ret = "return 1" -> "exit_failure"
                         [] OTHER -> "crashed_options"
              /\ view_only' = st.view_only
              /\ screen' = st.screen
              /\ screen_def' = st.screen_def
              /\ head_matrix' = st.head_matrix
    /\ UNCHANGED << frame_data, versions, frames, log, iter, events, argv, init_data >>
    /\ UNCHANGED pipevars
    /\ UNCHANGED inputvars

\* init_data as eq_config::init fills it: wall and cylinder are set for their
\* kind of screen only.
eq_init_data(vo, scr, def, hm) ==
    [ view_only |-> vo, screen |-> scr,
      wall |-> [i \in 1..9 |-> IF scr = "screen_wall" THEN def[i] ELSE NoValue],
      cylinder |-> [i \in 1..10 |-> IF scr = "screen_cylinder" THEN def[i] ELSE NoValue],
      head_matrix |-> hm ]

\* eq_config::init: registers frame_data, whose instance data becomes version
\* 1, registers init_data and initializes the configuration; every
\* eq_pipe::configInit maps its frame_data, which applies that version.
eq_config_init ==
    /\ pc = "config_init"
    /\ \E ncanvases \in {0, 1}, ok \in BOOLEAN :
          IF screen = "screen_canvas" /\ ncanvases = 0
          THEN /\ pc' = "exit_failure"
               /\ UNCHANGED << versions, pipe_frame_data, pipe_version, init_data >>
          ELSE IF ~ok
          THEN /\ pc' = "exit_failure"
               /\ init_data' = << eq_init_data(view_only, screen, screen_def, head_matrix) >>
               /\ UNCHANGED << versions, pipe_frame_data, pipe_version >>
          ELSE LET os == getInstanceData(frame_data)
               IN  /\ pc' = "vnc_init"
                   /\ init_data' = << eq_init_data(view_only, screen, screen_def, head_matrix) >>
                   /\ versions' = << [os |-> os, fd |-> frame_data, log |-> << >>] >>
                   /\ pipe_frame_data' =
                          [p \in Pipes |-> applyInstanceData(pipe_frame_data[p], os).fd]
                   /\ pipe_version' = [p \in Pipes |-> 1]
    /\ UNCHANGED << screen, frame_data, frames, log, iter, events, pipe_pc, pipe_frame >>
    /\ UNCHANGED << argv, view_only, screen_def, head_matrix, window >>
    /\ UNCHANGED inputvars

\* rfbInitClient: connects and calls MallocFrameBuffer, which is vnc_resize,
\* with the server's desktop size.
rfbInitClient ==
    /\ pc = "vnc_init"
    /\ \E ok \in BOOLEAN, w \in Dims, h \in Dims :
          IF ok
          THEN /\ pc' = "loop"
               /\ frame_data' = vnc_resize(frame_data, w, h)
               /\ log' = Append(log, [type |-> "resize", r |-> FullRect(w, h)])
               /\ events' = events + 1
          ELSE /\ pc' = "exit_failure"
               /\ UNCHANGED << frame_data, log, events >>
    /\ UNCHANGED << screen, versions, frames, iter >>
    /\ UNCHANGED pipevars
    /\ vnc_client' = TRUE
    /\ UNCHANGED << cfgvars, sent >>

\* while (appnode_eq_config->isRunning())
isRunning ==
    /\ pc = "loop"
    /\ \E running \in BOOLEAN :
          IF running
          THEN /\ iter < MaxFrames
               /\ pc' = "wait"
               /\ iter' = iter + 1
          ELSE /\ pc' = "exit"
               /\ UNCHANGED iter
    /\ UNCHANGED << screen, frame_data, versions, frames, log, events >>
    /\ UNCHANGED pipevars
    /\ UNCHANGED << cfgvars, inputvars >>

\* WaitForMessage without a timeout: it returns when the source has sent a
\* message
WaitForMessage_blocking ==
    /\ pc = "wait"
    /\ events < MaxEvents
    /\ pc' = "handle"
    /\ UNCHANGED << screen, frame_data, versions, frames, log, iter, events >>
    /\ UNCHANGED pipevars
    /\ UNCHANGED << cfgvars, inputvars >>
\* int i = WaitForMessage(vnc_client, 10): a message, a timeout or an error.
WaitForMessage ==
    /\ pc = "wait"
    /\ \E i \in {-1, 0, 1} : pc' = IF i > 0 THEN "handle" ELSE "start"
    /\ UNCHANGED << screen, frame_data, versions, frames, log, iter, events >>
    /\ UNCHANGED pipevars
    /\ UNCHANGED << cfgvars, inputvars >>

\* HandleRFBServerMessage calls MallocFrameBuffer for a new desktop size.
MallocFrameBuffer ==
    /\ pc = "handle"
    /\ events < MaxEvents
    /\ \E w \in Dims, h \in Dims :
          /\ frame_data' = vnc_resize(frame_data, w, h)
          /\ log' = Append(log, [type |-> "resize", r |-> FullRect(w, h)])
    /\ events' = events + 1
    /\ UNCHANGED << pc, screen, versions, frames, iter >>
    /\ UNCHANGED pipevars
    /\ UNCHANGED << cfgvars, inputvars >>

\* HandleRFBServerMessage decodes a rectangle and calls GotFrameBufferUpdate.
GotFrameBufferUpdate ==
    /\ pc = "handle"
    /\ events < MaxEvents
    /\ \E r \in SourceRects :
          /\ frame_data' = vnc_update(Decode(frame_data, r), r)
          /\ log' = Append(log, [type |-> "update", r |-> r])
    /\ events' = events + 1
    /\ UNCHANGED << pc, screen, versions, frames, iter >>
    /\ UNCHANGED pipevars
    /\ UNCHANGED << cfgvars, inputvars >>

\* HandleRFBServerMessage whose failure ends main() after one more commit
HandleRFBServerMessage_commit ==
    /\ pc = "handle"
    /\ \E ok \in BOOLEAN :
          IF ok
          THEN /\ pc' = "start"
               /\ UNCHANGED << versions, frames, log >>
          ELSE /\ pc' = "exit_failure"
               /\ versions' = commit(versions, [os |-> getInstanceData(frame_data),
                                                fd |-> frame_data, log |-> log])
               /\ frames' = Append(frames, Len(versions'))
               /\ log' = << >>
    /\ UNCHANGED << screen, frame_data, iter, events >>
    /\ UNCHANGED pipevars
    /\ UNCHANGED << cfgvars, inputvars >>
\* HandleRFBServerMessage returns; main() returns 1 when it failed.
HandleRFBServerMessage ==
    /\ pc = "handle"
    /\ \E ok \in BOOLEAN : pc' = IF ok THEN "start" ELSE "exit_failure"
    /\ UNCHANGED << screen, frame_data, versions, frames, log, iter, events >>
    /\ UNCHANGED pipevars
    /\ UNCHANGED << cfgvars, inputvars >>

\* eq_config::startFrame that computes the canvas rectangle in the first frame
\* only
startFrame_once ==
    /\ pc = "start"
    /\ \E surf \in Surfaces :
       \E fd \in { IF screen = "screen_canvas" /\ frame_data.canvas \in GarbageCanvas
                   THEN [frame_data EXCEPT
                           !.canvas = CanvasFit(frame_data.vnc_width,
                                               frame_data.vnc_height, surf)]
                   ELSE frame_data } :
       \E os \in { getInstanceData(fd) } :
              \/ /\ frame_data' = fd
                 /\ versions' = commit(versions, [os |-> os, fd |-> fd, log |-> log])
                 /\ frames' = Append(frames, Len(versions'))
                 /\ log' = << >>
                 /\ pc' = "finish"
              \/ /\ Holes(os) # {}
                 /\ pc' = "crashed"
                 /\ UNCHANGED << frame_data, versions, frames, log >>
    /\ UNCHANGED << screen, iter, events >>
    /\ UNCHANGED pipevars
    /\ UNCHANGED << cfgvars, inputvars >>
\* eq_config::startFrame: computes the canvas rectangle, commits frame_data
\* and starts the frame with the new version as its id.  fd is frame_data
\* with the canvas rectangle and os its instance data.
startFrame ==
    /\ pc = "start"
    /\ \E surf \in Surfaces :
       \E fd \in { IF screen = "screen_canvas"
                   THEN [frame_data EXCEPT
                           !.canvas = CanvasFit(frame_data.vnc_width,
                                               frame_data.vnc_height, surf)]
                   ELSE frame_data } :
       \E os \in { getInstanceData(fd) } :
              \/ /\ frame_data' = fd
                 /\ versions' = commit(versions, [os |-> os, fd |-> fd, log |-> log])
                 /\ frames' = Append(frames, Len(versions'))
                 /\ log' = << >>
                 /\ pc' = "finish"
              \/ /\ Holes(os) # {}
                 /\ pc' = "crashed"
                 /\ UNCHANGED << frame_data, versions, frames, log >>
    /\ UNCHANGED << screen, iter, events >>
    /\ UNCHANGED pipevars
    /\ UNCHANGED << cfgvars, inputvars >>

\* eq::Config::finishFrame
finishFrame ==
    /\ pc = "finish"
    /\ pc' = "clear"
    /\ UNCHANGED << screen, frame_data, versions, frames, log, iter, events >>
    /\ UNCHANGED pipevars
    /\ UNCHANGED << cfgvars, inputvars >>

\* frame_data.vnc_dirty_rectangles.clear() and back to the loop condition.
ClearDirtyRectangles ==
    /\ pc = "clear"
    /\ frame_data' = clear(frame_data)
    /\ pc' = "loop"
    /\ UNCHANGED << screen, versions, frames, log, iter, events >>
    /\ UNCHANGED pipevars
    /\ UNCHANGED << cfgvars, inputvars >>

(***************************************************************************)
(* The pipe threads                                                        *)
(***************************************************************************)
\* frame_data.sync(frame_id): applies the versions after v up to frame_id, in
\* order.
RECURSIVE sync(_, _, _, _)
sync(vs, fd, v, frame_id) ==
    IF v >= frame_id THEN [fd |-> fd, oob |-> FALSE]
    ELSE LET a == applyInstanceData(fd, vs[v + 1].os)
             b == sync(vs, a.fd, v + 1, frame_id)
         IN  [fd |-> b.fd, oob |-> a.oob \/ b.oob]

\* eq_pipe::frameStart of the pipe's next frame: syncs frame_data to the
\* frame's version, then eq::Pipe::frameStart lets the windows and channels
\* of the pipe process the frame.  A pixel written outside the framebuffer
\* crashes the process or is stored elsewhere.  The pipe thread runs the
\* tasks of a frame one after the other, so the window of the pipe is
\* between two frames here.
eq_pipe_frameStart(p) ==
    /\ pipe_pc[p] = "running"
    /\ window[p].pc = "idle"
    /\ pipe_frame[p] < Len(frames)
    /\ LET frame_number == pipe_frame[p] + 1
           frame_id == frames[frame_number]
           s == sync(versions, pipe_frame_data[p], pipe_version[p], frame_id)
       IN  \/ /\ pipe_frame_data' = [pipe_frame_data EXCEPT ![p] = s.fd]
              /\ pipe_version' = [pipe_version EXCEPT
                                    ![p] = IF @ >= frame_id THEN @ ELSE frame_id]
              /\ pipe_frame' = [pipe_frame EXCEPT ![p] = frame_number]
              /\ UNCHANGED pipe_pc
           \/ /\ s.oob
              /\ pipe_pc' = [pipe_pc EXCEPT ![p] = "crashed"]
              /\ UNCHANGED << pipe_frame_data, pipe_version, pipe_frame >>
    /\ UNCHANGED << appvars, window >>
    /\ UNCHANGED << cfgvars, inputvars >>

Next ==
    \/ main_options
    \/ eq_config_init
    \/ rfbInitClient
    \/ isRunning
    \/ WaitForMessage
    \/ MallocFrameBuffer
    \/ GotFrameBufferUpdate
    \/ HandleRFBServerMessage
    \/ startFrame
    \/ finishFrame
    \/ ClearDirtyRectangles
    \/ \E p \in Pipes : eq_pipe_frameStart(p)

Spec == Init /\ [][Next]_vars

\* main() is sequential code: each call of the loop body returns, and the
\* statement after it is executed.  WaitForMessage returns by its timeout of
\* 10 microseconds at the latest.
MainFairness ==
    /\ WF_vars(WaitForMessage)
    /\ WF_vars(HandleRFBServerMessage)
    /\ WF_vars(startFrame)
    /\ WF_vars(finishFrame)
    /\ WF_vars(ClearDirtyRectangles)

\* The main thread alone, started without options: no statement of main()
\* waits for a pipe thread.
InitLive == InitMain(<< >>)

NextLive ==
    \/ main_options
    \/ eq_config_init
    \/ rfbInitClient
    \/ isRunning
    \/ WaitForMessage
    \/ MallocFrameBuffer
    \/ GotFrameBufferUpdate
    \/ HandleRFBServerMessage
    \/ startFrame
    \/ finishFrame
    \/ ClearDirtyRectangles

SpecLive == InitLive /\ [][NextLive]_vars /\ MainFairness

(***************************************************************************)
(* Input events: the first frame of a session.  main() has read its        *)
(* options, initialized the configuration and the VNC client, whose        *)
(* desktop is one of InputDesktops, and waited for a message in vain;      *)
(* startFrame follows, and finishFrame hands the events of the windows to  *)
(* handleEvent.                                                            *)
(***************************************************************************)
InputArgvs ==
    { a \o b : a \in { << >>, << Flag("--view-only") >> }, b \in Argvs }

InputDesktops == { << 1, 1 >>, << 2, 1 >>, << 4, 3 >> }

InitInput ==
    \E av \in InputArgvs, d \in InputDesktops, cv \in GarbageCanvas :
        LET st == options(av, 1, MainLocals)
            fd == eq_frame_data(cv)
            os == getInstanceData(fd)
        IN  /\ pc = "start"
            /\ argv = av
            /\ view_only = st.view_only
            /\ screen = st.screen
            /\ screen_def = st.screen_def
            /\ head_matrix = st.head_matrix
            /\ init_data = << eq_init_data(st.view_only, st.screen, st.screen_def,
                                           st.head_matrix) >>
            /\ vnc_client = TRUE
            /\ sent = Nothing
            /\ frame_data = vnc_resize(fd, d[1], d[2])
            /\ versions = << [os |-> os, fd |-> fd, log |-> << >>] >>
            /\ frames = << >>
            /\ log = << [type |-> "resize", r |-> FullRect(d[1], d[2])] >>
            /\ iter = 1
            /\ events = 1
            /\ pipe_frame_data = [p \in Pipes |-> applyInstanceData(fd, os).fd]
            /\ pipe_version = [p \in Pipes |-> 1]
            /\ pipe_pc = [p \in Pipes |-> "running"]
            /\ pipe_frame = [p \in Pipes |-> 0]
            /\ window = [p \in Pipes |-> eq_window]

\* eq::Config::finishFrame hands a pending event, one of E, to
\* eq_config::handleEvent.
handleEventsOf(E) ==
    /\ pc = "finish"
    /\ \E event \in E, base \in BOOLEAN :
          sent' = [ msg |-> handleEvent(event, base, view_only, screen, vnc_client,
                                        frame_data),
                    base |-> base, event |-> event ]
    /\ UNCHANGED << pc, screen, frame_data, versions, frames, log, iter, events >>
    /\ UNCHANGED pipevars
    /\ UNCHANGED << cfgvars, vnc_client >>

handleEvents == handleEventsOf(Events)

NextInput == startFrame \/ handleEvents

SpecInput == InitInput /\ [][NextInput]_vars

(***************************************************************************)
(* The pointer in canvas mode: the main thread, started without options,   *)
(* whose finishFrame hands pointer motions of a channel that covers the    *)
(* canvas to handleEvent.                                                  *)
(***************************************************************************)
MotionEvents ==
    { e \in PointerEvents :
        e.type = "CHANNEL_POINTER_MOTION" /\ e.vp.w = One /\ e.y = 1 }

handleMotionEvents == handleEventsOf(MotionEvents)

NextCanvas ==
    \/ main_options
    \/ eq_config_init
    \/ rfbInitClient
    \/ isRunning
    \/ WaitForMessage
    \/ MallocFrameBuffer
    \/ GotFrameBufferUpdate
    \/ HandleRFBServerMessage
    \/ startFrame
    \/ handleMotionEvents
    \/ finishFrame
    \/ ClearDirtyRectangles

SpecCanvas == InitMain(<< >>) /\ [][NextCanvas]_vars

(***************************************************************************)
(* The frame of a window: after eq_pipe::frameStart the pipe thread calls   *)
(* eq_window::frameStart, eq_channel::frameDraw and eq_window::frameFinish. *)
(***************************************************************************)
\* eq_window::frameStart of the frame the pipe has started.
window_frameStart(p) ==
    /\ pipe_pc[p] = "running"
    /\ window[p].pc = "idle"
    /\ window[p].frame < pipe_frame[p]
    /\ LET win == window[p]
           entry == [win EXCEPT !.uploads = 0, !.created = FALSE,
                                !.entry_updated = win.tex_updated,
                                !.frame = pipe_frame[p]]
       IN  window' = [window EXCEPT
                        ![p] = [eq_window_frameStart(entry, pipe_frame_data[p])
                                EXCEPT !.pc = "draw"]]
    /\ UNCHANGED << pipe_frame_data, pipe_version, pipe_pc, pipe_frame >>
    /\ UNCHANGED appvars
    /\ UNCHANGED << cfgvars, inputvars >>

\* eq_channel::frameDraw binds window->tex and draws the screen with it.
channel_frameDraw(p) ==
    /\ pipe_pc[p] = "running"
    /\ window[p].pc = "draw"
    /\ window' = [window EXCEPT ![p].pc = "finish"]
    /\ UNCHANGED << pipe_frame_data, pipe_version, pipe_pc, pipe_frame >>
    /\ UNCHANGED appvars
    /\ UNCHANGED << cfgvars, inputvars >>

\* eq_window::frameFinish ends the frame of the window.
window_frameFinish(p) ==
    /\ pipe_pc[p] = "running"
    /\ window[p].pc = "finish"
    /\ window' = [window EXCEPT
                    ![p] = [eq_window_frameFinish(window[p]) EXCEPT !.pc = "idle"]]
    /\ UNCHANGED << pipe_frame_data, pipe_version, pipe_pc, pipe_frame >>
    /\ UNCHANGED appvars
    /\ UNCHANGED << cfgvars, inputvars >>

\* The pipe threads share no state and run the same code: the frames of
\* the window are followed on one pipe.
WindowPipes == {1}

NextWindow ==
    \/ main_options
    \/ eq_config_init
    \/ rfbInitClient
    \/ isRunning
    \/ WaitForMessage
    \/ MallocFrameBuffer
    \/ GotFrameBufferUpdate
    \/ HandleRFBServerMessage
    \/ startFrame
    \/ finishFrame
    \/ ClearDirtyRectangles
    \/ \E p \in WindowPipes : eq_pipe_frameStart(p)
    \/ \E p \in WindowPipes : window_frameStart(p)
    \/ \E p \in WindowPipes : channel_frameDraw(p)
    \/ \E p \in WindowPipes : window_frameFinish(p)

SpecWindow == InitMain(<< >>) /\ [][NextWindow]_vars

(***************************************************************************)
(* Startup: main() from its first statement to the first test of the loop  *)
(* condition, for the command lines of at most MaxArgs words of            *)
(* StartupWords.                                                           *)
(***************************************************************************)
\* Arguments of --screen: a wall and a cylinder as documented, a wall with a
\* tenth number, a wall with text after its ninth number, a wall with eight
\* numbers, a wall whose third item is no number, a cylinder whose up vector
\* is zero, and a kind of screen that does not exist.
ScreenValues ==
    { Value("canvas", NoItems), WallArg, CylinderArg,
      Value("wall", WallArg.items \o << Float(1) >>),
      Value("wall", WallArg.items \o << Junk >>),
      Value("wall", SubSeq(WallArg.items, 1, 8)),
      Value("wall", [WallArg.items EXCEPT ![3] = Junk]),
      Value("cylinder", [CylinderArg.items EXCEPT ![4] = Float(0), ![5] = Float(0),
                                                  ![6] = Float(0)]),
      Value("sphere", NoItems) }

\* Arguments of --lookat: from (0,0,2) to the origin with up = y, the same
\* with the eye in the center, with up along the viewing direction, with a
\* zero up vector, and with eight numbers.
LookatItems(eye, center, up) ==
    [i \in 1..9 |-> Float((eye \o center \o up)[i])]

LookatValues ==
    { Value("", LookatItems(<< 0, 0, 2 >>, << 0, 0, 0 >>, << 0, 1, 0 >>)),
      Value("", LookatItems(<< 0, 0, 0 >>, << 0, 0, 0 >>, << 0, 1, 0 >>)),
      Value("", LookatItems(<< 0, 0, 2 >>, << 0, 0, 0 >>, << 0, 0, 1 >>)),
      Value("", LookatItems(<< 0, 0, 2 >>, << 0, 0, 0 >>, << 0, 0, 0 >>)),
      Value("", SubSeq(LookatItems(<< 0, 0, 2 >>, << 0, 0, 0 >>, << 0, 1, 0 >>), 1, 8)) }

StartupWords ==
    { Flag("--view-only"), Flag("--screen"), Flag("--lookat") }
    \cup { Arg("--screen=", v) : v \in ScreenValues }
    \cup { Arg("--lookat=", v) : v \in LookatValues }
    \cup { Arg("", v) : v \in {WallArg, Value("", LookatItems(<< 0, 0, 2 >>, << 0, 0, 0 >>,
                                                                 << 0, 1, 0 >>))} }

StartupArgvs == UNION { [1..n -> StartupWords] : n \in 0..MaxArgs }

InitStartup == \E av \in StartupArgvs : InitMain(av)

NextStartup == main_options \/ eq_config_init \/ rfbInitClient

SpecStartup == InitStartup /\ [][NextStartup]_vars

(***************************************************************************)
(* getInstanceData and applyInstanceData on their own: an arbitrary master *)
(* instance whose dirty rectangles lie within its desktop is serialized,   *)
(* and the stream is applied to a newly constructed instance.              *)
(***************************************************************************)
RectsIn(w, h) ==
    { r \in [x : 0..(w - 1), y : 0..(h - 1), w : 1..w, h : 1..h] :
        r.x + r.w <= w /\ r.y + r.h <= h }

SeqsUpTo(S, n) == UNION { [1..k -> S] : k \in 0..n }

\* Framebuffers whose pixels all differ, and differ from the 0 of a pixel
\* that was never written.
Framebuffers(n) == { [i \in 1..n |-> i + c] : c \in Pixels }

\* A master instance of a w x h desktop.
Instance(w, h, cv, fb, rs) ==
    [ vnc_width |-> w, vnc_height |-> h, canvas |-> cv,
      vnc_framebuffer |-> fb, vnc_dirty_rectangles |-> rs ]

\* The 100x100 desktop with the dirty rectangle {10, 20, 5, 5}.
ExampleInstance ==
    [ vnc_width |-> 100, vnc_height |-> 100,
      canvas |-> CanvasFit(100, 100, << 16, 9 >>),
      vnc_framebuffer |-> [i \in 1..(100 * 100) |-> i],
      vnc_dirty_rectangles |-> << [x |-> 10, y |-> 20, w |-> 5, h |-> 5] >> ]

InitCodec ==
    /\ pc = "codec_instance"
    /\ screen = "screen_canvas"
    /\ argv = << >>
    /\ view_only = MainLocals.view_only
    /\ screen_def = MainLocals.screen_def
    /\ head_matrix = MainLocals.head_matrix
    /\ init_data = << >>
    /\ vnc_client = FALSE
    /\ sent = Nothing
    /\ \/ frame_data = ExampleInstance
       \/ \E w \in Dims, h \in Dims :
             \E cv \in GarbageCanvas \cup { CanvasFit(w, h, surf) : surf \in Surfaces },
                fb \in Framebuffers(w * h),
                rs \in SeqsUpTo(RectsIn(w, h), MaxRects) :
                   frame_data = Instance(w, h, cv, fb, rs)
    /\ versions = << >>
    /\ frames = << >>
    /\ log = << >>
    /\ iter = 0
    /\ events = 0
    /\ pipe_frame_data \in [Pipes -> { eq_frame_data(cv) : cv \in GarbageCanvas }]
    /\ pipe_version = [p \in Pipes |-> 0]
    /\ pipe_pc = [p \in Pipes |-> "running"]
    /\ pipe_frame = [p \in Pipes |-> 0]
    /\ window = [p \in Pipes |-> eq_window]

\* getInstanceData writes the master instance to a stream.
Serialize ==
    /\ pc = "codec_instance"
    /\ pc' = "codec_stream"
    /\ versions' = << [os |-> getInstanceData(frame_data), fd |-> frame_data,
                       log |-> << >>] >>
    /\ UNCHANGED << screen, frame_data, frames, log, iter, events >>
    /\ UNCHANGED pipevars
    /\ UNCHANGED << cfgvars, inputvars >>

\* applyInstanceData reads the stream into the newly constructed instances.
Deserialize ==
    /\ pc = "codec_stream"
    /\ pc' = "codec_applied"
    /\ pipe_frame_data' =
          [p \in Pipes |-> applyInstanceData(pipe_frame_data[p], versions[1].os).fd]
    /\ pipe_version' = [p \in Pipes |-> 1]
    /\ UNCHANGED << screen, frame_data, versions, frames, log, iter, events,
                    pipe_pc, pipe_frame, window >>
    /\ UNCHANGED << cfgvars, inputvars >>

NextCodec == Serialize \/ Deserialize

SpecCodec == InitCodec /\ [][NextCodec]_vars

(***************************************************************************)
(* Properties                                                              *)
(***************************************************************************)
InRect(r, x, y) == r.x <= x /\ x < r.x + r.w /\ r.y <= y /\ y < r.y + r.h

\* The pixel at (x, y) of an instance, and whether the instance has it.
HasPixel(fd, x, y) == (y * fd.vnc_width + x + 1) \in DOMAIN fd.vnc_framebuffer

PixelAt(fd, x, y) == fd.vnc_framebuffer[y * fd.vnc_width + x + 1]

\* Slave instance rep equals master instance m in size and in every pixel of
\* the desktop that lies inside a dirty rectangle of m.
EqualInRects(rep, m) ==
    /\ rep.vnc_width = m.vnc_width
    /\ rep.vnc_height = m.vnc_height
    /\ \A i \in 1..Len(m.vnc_dirty_rectangles) :
         \A x \in 0..(m.vnc_width - 1), y \in 0..(m.vnc_height - 1) :
            InRect(m.vnc_dirty_rectangles[i], x, y) =>
                /\ HasPixel(rep, x, y)
                /\ HasPixel(m, x, y)
                /\ PixelAt(rep, x, y) = PixelAt(m, x, y)

\* The versions committed by startFrame (version 1 is the registration).
Committed == 2..Len(versions)

IsResize(e) == e.type = "resize"

HasResize(l) == \E i \in 1..Len(l) : IsResize(l[i])

LastResize(l) == CHOOSE i \in 1..Len(l) : IsResize(l[i]) /\ \A j \in (i + 1)..Len(l) : ~IsResize(l[j])

\* The rectangles of the callbacks of l from callback i on.
RECURSIVE RectsFrom(_, _)
RectsFrom(l, i) == IF i > Len(l) THEN << >> ELSE << l[i].r >> \o RectsFrom(l, i + 1)

\* The rectangle list transmitted by stream os.
RECURSIVE StreamRects(_, _, _)
StreamRects(os, pos, n) ==
    IF n = 0 THEN << >>
    ELSE LET r == [x |-> os[pos], y |-> os[pos + 1], w |-> os[pos + 2], h |-> os[pos + 3]]
         IN  << r >> \o StreamRects(os, pos + 4 + r.w * r.h, n - 1)

Transmitted(v) == StreamRects(v.os, HeaderLen + 1, v.os[HeaderLen])

\* C1: a slave instance that has applied a committed version has the width
\* and height the master had at that commit, and equals the master's
\* framebuffer of that commit in every pixel inside a transmitted rectangle.
C1_ReplicaEqualsMasterInRects ==
    \A p \in Pipes :
        pipe_version[p] >= 1 =>
            LET v == versions[pipe_version[p]]
            IN  /\ Transmitted(v) = v.fd.vnc_dirty_rectangles
                /\ EqualInRects(pipe_frame_data[p], v.fd)

\* A pipe has applied a commit with two overlapping rectangles and changed pixels.
C1_Witness ==
    \E p \in Pipes :
        /\ pipe_version[p] >= 2
        /\ LET m == versions[pipe_version[p]].fd
           IN  /\ Len(m.vnc_dirty_rectangles) >= 2
               /\ m.vnc_width = 2 /\ m.vnc_height = 2
               /\ \E x \in 0..1, y \in 0..1 :
                    /\ InRect(m.vnc_dirty_rectangles[1], x, y)
                    /\ InRect(m.vnc_dirty_rectangles[2], x, y)
                    /\ PixelAt(m, x, y) = 1
               /\ \E i \in DOMAIN m.vnc_framebuffer : m.vnc_framebuffer[i] = 0

OnlyResizes(l) == l # << >> /\ \A i \in 1..Len(l) : IsResize(l[i])

\* C2: when only resizes were delivered since the previous commit, the
\* committed snapshot has exactly one dirty rectangle, {0, 0, w, h} of the
\* last resize.
C2_OnlyResizesOneFullRect ==
    \A k \in Committed :
        LET v == versions[k]
        IN  OnlyResizes(v.log) =>
                /\ v.fd.vnc_dirty_rectangles = << v.log[Len(v.log)].r >>
                /\ Transmitted(v) = << FullRect(v.fd.vnc_width, v.fd.vnc_height) >>

\* A commit after two resizes to different sizes.
C2_Witness ==
    \E k \in Committed :
        LET l == versions[k].log
        IN  /\ OnlyResizes(l)
            /\ Len(l) >= 2
            /\ l[1].r # l[2].r

\* C3 as claimed: the first snapshot committed after a resize has exactly one
\* dirty rectangle, the full extent, whatever callbacks came before the commit.
C3_AfterResizeExactlyOneRect ==
    \A k \in Committed :
        LET v == versions[k]
        IN  HasResize(v.log) =>
                Transmitted(v) = << FullRect(v.fd.vnc_width, v.fd.vnc_height) >>

\* C3 amended: the first snapshot committed after a resize starts with the
\* full extent rectangle of the last resize, followed by the rectangles of the
\* updates delivered after that resize, in order; it has exactly one
\* rectangle only when no update followed the resize.
C3_AfterResizeFullRectFirst ==
    \A k \in Committed :
        LET v == versions[k]
        IN  HasResize(v.log) =>
                /\ Transmitted(v) = RectsFrom(v.log, LastResize(v.log))
                /\ Transmitted(v)[1] = FullRect(v.fd.vnc_width, v.fd.vnc_height)
                /\ (Len(Transmitted(v)) = 1) <=> (LastResize(v.log) = Len(v.log))

\* A commit after a resize that was followed by an update in the same step.
C3_Witness ==
    \E k \in Committed :
        LET l == versions[k].log
        IN  /\ Len(l) >= 2
            /\ IsResize(l[Len(l) - 1])
            /\ ~IsResize(l[Len(l)])
            /\ Len(Transmitted(versions[k])) = 2

\* C4 as claimed: every rectangle of the dirty list lies within the desktop.
C4_DirtyRectsWithinDesktop ==
    \A i \in 1..Len(frame_data.vnc_dirty_rectangles) :
        LET r == frame_data.vnc_dirty_rectangles[i]
        IN  /\ 0 <= r.x /\ 0 <= r.y
            /\ r.x + r.w <= frame_data.vnc_width
            /\ r.y + r.h <= frame_data.vnc_height

\* The commits made by startFrame.
CommitCount == Cardinality(Committed)

\* C5: an iteration that reaches finishFrame has committed exactly once, a
\* failed iteration not at all, and frame n has version n + 1 as its id.
C5_OneCommitPerIteration ==
    /\ pc \in {"loop", "exit", "finish", "clear"} => CommitCount = iter
    /\ pc \in {"wait", "handle", "start", "crashed"} => CommitCount = iter - 1
    /\ pc = "exit_failure" => CommitCount = (IF iter = 0 THEN 0 ELSE iter - 1)
    /\ pc \in {"config_init", "vnc_init"} => CommitCount = 0 /\ iter = 0
    /\ Len(frames) = CommitCount
    /\ \A n \in 1..Len(frames) : frames[n] = n + 1

\* An iteration without a message has committed a snapshot without rectangles.
C5_Witness ==
    /\ pc = "finish"
    /\ iter = 2
    /\ versions[3].os[HeaderLen] = 0
    /\ versions[3].log = << >>

\* C6 as claimed: the dirty list is empty at the start of every polling step.
C6_DirtyEmptyAtEveryPoll ==
    pc = "wait" => frame_data.vnc_dirty_rectangles = << >>

\* C6 amended: the dirty list is empty at the start of every polling step but
\* the first, where it holds the full extent rectangle of the resize made by
\* rfbInitClient; and every rectangle of a snapshot was recorded by a callback
\* since the previous commit.
C6_DirtyNotCumulative ==
    /\ pc = "wait" =>
          IF iter = 1
          THEN /\ frame_data.vnc_dirty_rectangles =
                    << FullRect(frame_data.vnc_width, frame_data.vnc_height) >>
               /\ log = << [type |-> "resize", r |-> frame_data.vnc_dirty_rectangles[1]] >>
          ELSE /\ frame_data.vnc_dirty_rectangles = << >>
               /\ log = << >>
    /\ \A k \in Committed :
         LET v == versions[k]
         IN  /\ Len(Transmitted(v)) <= Len(v.log)
             /\ \A i \in 1..Len(Transmitted(v)) :
                  \E j \in 1..Len(v.log) : v.log[j].r = Transmitted(v)[i]

\* The second polling step starts after a snapshot with rectangles.
C6_Witness ==
    /\ pc = "wait"
    /\ iter = 2
    /\ Len(Transmitted(versions[2])) >= 2
    /\ frame_data.vnc_dirty_rectangles = << >>

\* C10: the master framebuffer has vnc_width * vnc_height pixels, and so has
\* the framebuffer of every slave instance.
C10_FramebufferSize ==
    /\ Len(frame_data.vnc_framebuffer) = frame_data.vnc_width * frame_data.vnc_height
    /\ \A p \in Pipes :
         Len(pipe_frame_data[p].vnc_framebuffer) =
            pipe_frame_data[p].vnc_width * pipe_frame_data[p].vnc_height

\* A pipe has applied a resize that changes the width and keeps the number of
\* pixels, and one that changes only the height.
C10_Witness ==
    \E p \in Pipes, q \in Pipes :
        /\ pipe_version[p] = 3 /\ pipe_version[q] = 3
        /\ \/ /\ versions[2].fd.vnc_width = 1 /\ versions[2].fd.vnc_height = 2
              /\ versions[3].fd.vnc_width = 2 /\ versions[3].fd.vnc_height = 1
           \/ /\ versions[2].fd.vnc_width = 1 /\ versions[2].fd.vnc_height = 1
              /\ versions[3].fd.vnc_width = 1 /\ versions[3].fd.vnc_height = 2

\* C8: applying the stream of a master instance to a newly constructed
\* instance gives the master's width, height and canvas, and the master's
\* pixel wherever a transmitted rectangle covers it.
C8_RoundTrip ==
    pc = "codec_applied" =>
        \A p \in Pipes :
            /\ EqualInRects(pipe_frame_data[p], frame_data)
            /\ pipe_frame_data[p].canvas = frame_data.canvas
            /\ Len(pipe_frame_data[p].vnc_framebuffer) =
                  frame_data.vnc_width * frame_data.vnc_height

\* A stream with two overlapping rectangles of a 2x2 desktop has been applied.
C8_Witness ==
    /\ pc = "codec_applied"
    /\ frame_data.vnc_width = 2 /\ frame_data.vnc_height = 2
    /\ frame_data.vnc_dirty_rectangles =
          << [x |-> 0, y |-> 0, w |-> 2, h |-> 1], [x |-> 1, y |-> 0, w |-> 1, h |-> 2] >>
    /\ pipe_frame_data[1].vnc_framebuffer = << 1, 2, 0, 4 >>

\* The number of stream values of the first n rectangles: bounds and pixels.
RECURSIVE RectsLen(_, _)
RectsLen(rs, n) ==
    IF n = 0 THEN 0 ELSE RectsLen(rs, n - 1) + 4 + rs[n].w * rs[n].h

\* C9: the stream is width, height, the six canvas values and the count,
\* then per rectangle in list order its bounds and its w * h pixels in
\* row-major order from (x, y), and nothing else.
C9_DeltaEncoding ==
    pc \in {"codec_stream", "codec_applied"} =>
        LET os == versions[1].os
            rs == frame_data.vnc_dirty_rectangles
        IN  /\ os[1] = frame_data.vnc_width
            /\ os[2] = frame_data.vnc_height
            /\ SubSeq(os, 3, 8) = frame_data.canvas
            /\ os[HeaderLen] = Len(rs)
            /\ Len(os) = HeaderLen + RectsLen(rs, Len(rs))
            /\ \A i \in 1..Len(rs) :
                 LET at == HeaderLen + RectsLen(rs, i - 1)
                     r  == rs[i]
                 IN  /\ SubSeq(os, at + 1, at + 4) = << r.x, r.y, r.w, r.h >>
                     /\ \A k \in 0..(r.w * r.h - 1) :
                          os[at + 4 + k + 1] =
                             PixelAt(frame_data, r.x + (k % r.w), r.y + (k \div r.w))

\* The 100x100 desktop with the rectangle {10, 20, 5, 5} has been serialized:
\* 25 pixels, from (10, 20) to (14, 24).
C9_Witness ==
    /\ pc = "codec_stream"
    /\ frame_data.vnc_width = 100 /\ frame_data.vnc_height = 100
    /\ Len(versions[1].os) = HeaderLen + 4 + 25
    /\ SubSeq(versions[1].os, HeaderLen + 5, HeaderLen + 10) =
          << 2011, 2012, 2013, 2014, 2015, 2111 >>
    /\ versions[1].os[HeaderLen + 4 + 25] = 2415

\* The last event was one that handleEvent acts on: not consumed by
\* eq::Config::handleEvent, the VNC client set.
Offered == ~sent.base /\ vnc_client

\* C11: in a view-only session handleEvent sends no key event and no pointer
\* event, whatever the event and the kind of screen.
C11_ViewOnlySendsNothing ==
    view_only => sent.msg = NoMessage

\* A key press on the canvas of a view-only session was offered and not sent.
C11_Witness ==
    /\ view_only
    /\ Offered
    /\ screen = "screen_canvas"
    /\ sent.event.type = "KEY_PRESS"
    /\ sent.event.key = 97
    /\ sent.msg = NoMessage

\* C12: on a wall or a cylinder no pointer event is sent.
C12_PointerOnlyOnCanvas ==
    screen # "screen_canvas" => sent.msg.type # "pointer"

\* A wheel event was offered in an interactive session on a wall and not sent.
C12_Witness ==
    /\ screen = "screen_wall"
    /\ ~view_only
    /\ Offered
    /\ sent.event.type = "CHANNEL_POINTER_WHEEL"
    /\ sent.msg = NoMessage

\* C13 as claimed: on a wall or a cylinder no key event is sent.
C13_KeysOnlyOnCanvas ==
    screen # "screen_canvas" => sent.msg.type # "key"

\* C13 amended: a key press or key release offered in an interactive session
\* is translated and sent on every kind of screen, as a key-down for a press
\* and a key-up for a release; only the pointer events depend on the screen.
C13_KeysOnEveryScreen ==
    (Offered /\ ~view_only /\ sent.event.type \in {"KEY_PRESS", "KEY_RELEASE"}) =>
        /\ sent.msg.type = "key"
        /\ sent.msg.key = eqkey_to_rfbkey(sent.event.key)
        /\ sent.msg.down = (sent.event.type = "KEY_PRESS")

\* The release of the up arrow was sent in a session on a cylinder.
C13_Witness ==
    /\ screen = "screen_cylinder"
    /\ sent.event.type = "KEY_RELEASE"
    /\ sent.event.key = KC.KC_UP
    /\ sent.msg = SendKeyEvent(XK.XK_Up, FALSE)

\* The position of the last event in VNC pixels, before the conversion to int.
SentPos ==
    EventPos(sent.event, sent.event.pvp, sent.event.vp, frame_data.canvas,
             frame_data.vnc_width, frame_data.vnc_height)

InRange(f, size) == FracGe(f, << 0, 1 >>) /\ FracGe(<< size - 1, 1 >>, f)

\* C14: the position of a pointer event sent lies in the desktop, and a
\* mapped coordinate within [0, size - 1] is sent with its fraction discarded.
C14_PointerClamp ==
    sent.msg.type = "pointer" =>
        /\ 0 <= sent.msg.x /\ sent.msg.x <= frame_data.vnc_width - 1
        /\ 0 <= sent.msg.y /\ sent.msg.y <= frame_data.vnc_height - 1
        /\ InRange(SentPos[1], frame_data.vnc_width) => sent.msg.x = Trunc(SentPos[1])
        /\ InRange(SentPos[2], frame_data.vnc_height) => sent.msg.y = Trunc(SentPos[2])

\* A pointer event right of and above the desktop was sent at the last column
\* and the first row.
C14_Witness ==
    /\ sent.msg.type = "pointer"
    /\ Trunc(SentPos[1]) > frame_data.vnc_width - 1
    /\ sent.msg.x = frame_data.vnc_width - 1
    /\ Trunc(SentPos[2]) < 0
    /\ sent.msg.y = 0

\* C15: the canvas rectangle of startFrame: extent w and h are at most 1, w
\* is 1 when the desktop is at least as wide as the surface (in aspect ratio)
\* and h is 1 otherwise, the other one being the quotient of the aspect
\* ratios, and the origin centers the extent.  800x600 on 16:9 gives 3/4, 1.
C15_CanvasFit ==
    /\ CanvasFit(800, 600, << 16, 9 >>)[5] = << 3, 4 >>
    /\ CanvasFit(800, 600, << 16, 9 >>)[6] = One
    /\ (pc = "finish" /\ screen = "screen_canvas") =>
          LET c    == frame_data.canvas
              w    == frame_data.vnc_width
              h    == frame_data.vnc_height
              wide == w * c[2][1] * c[1][2] >= h * c[1][1] * c[2][2]
          IN  /\ FracGe(One, c[5]) /\ FracGe(One, c[6])
              /\ c[5][1] > 0 /\ c[6][1] > 0
              /\ wide => c[5] = One /\ c[6] = Frac(h * c[1][1] * c[2][2], w * c[2][1] * c[1][2])
              /\ ~wide => c[6] = One /\ c[5] = Frac(w * c[2][1] * c[1][2], h * c[1][1] * c[2][2])
              /\ FracAdd(FracAdd(c[3], c[3]), c[5]) = One
              /\ FracAdd(FracAdd(c[4], c[4]), c[6]) = One

\* startFrame has fitted a 4x3 desktop on a 16:9 surface: three quarters of
\* the width, centered, and the whole height.
C15_Witness ==
    /\ pc = "finish"
    /\ screen = "screen_canvas"
    /\ frame_data.vnc_width = 4 /\ frame_data.vnc_height = 3
    /\ frame_data.canvas = << << 16, 1 >>, << 9, 1 >>, << 1, 8 >>, << 0, 1 >>,
                              << 3, 4 >>, One >>

\* C16: a key event is sent with the key symbol of its key code: escape,
\* backspace, return and tab, the eight keys from home to end and F1..F24
\* have their X11 symbols, every other code is sent as it is; press and
\* release are mapped alike.
C16_KeyMapping ==
    sent.msg.type = "key" =>
        LET k == sent.event.key
        IN  /\ sent.msg.key =
                  CASE k = KC.KC_ESCAPE    -> 65307
                    [] k = KC.KC_BACKSPACE -> 65288
                    [] k = KC.KC_RETURN    -> 65293
                    [] k = KC.KC_TAB       -> 65289
                    [] k \in KC.KC_HOME..KC.KC_END -> 65360 + (k - KC.KC_HOME)
                    [] k \in KC.KC_F1..KC.KC_F24   -> 65470 + (k - KC.KC_F1)
                    [] OTHER -> k
            /\ sent.msg.down = (sent.event.type = "KEY_PRESS")

\* The release of escape was sent as the release of XK_Escape.
C16_Witness ==
    /\ sent.event.type = "KEY_RELEASE"
    /\ sent.event.key = KC.KC_ESCAPE
    /\ sent.msg = SendKeyEvent(XK.XK_Escape, FALSE)

\* C17: a failure of the VNC session ends main(): after a failed
\* rfbInitClient no iteration was started and nothing committed; after a
\* failed HandleRFBServerMessage the iteration has not committed (the
\* commits are those of the iterations before it); and from then on there
\* is no further iteration, commit or frame.
C17_SessionFailureIsFatal ==
    /\ [](pc = "exit_failure" =>
            /\ iter = 0 => (versions = << >> \/ Len(versions) = 1) /\ frames = << >>
            /\ iter > 0 => Len(versions) = iter /\ Len(frames) = iter - 1)
    /\ [][pc = "exit_failure" =>
            /\ pc' = "exit_failure"
            /\ iter' = iter
            /\ versions' = versions
            /\ frames' = frames]_vars

\* HandleRFBServerMessage has failed in the second iteration, after the one
\* commit of the first.
C17_Witness ==
    /\ pc = "exit_failure"
    /\ vnc_client
    /\ iter = 2
    /\ Len(versions) = 2
    /\ Len(frames) = 1

\* The arguments of --screen and --lookat as the README gives them.
WellFormedScreen(v) ==
    \/ v.head = "canvas" /\ v.items = << >>
    \/ v.head = "wall" /\ Len(v.items) = 9 /\ \A i \in 1..9 : IsFloat(v.items[i])
    \/ v.head = "cylinder" /\ Len(v.items) = 10 /\ \A i \in 1..10 : IsFloat(v.items[i])

WellFormedLookat(v) ==
    v.head = "" /\ Len(v.items) = 9 /\ \A i \in 1..9 : IsFloat(v.items[i])

\* The command line has a --screen or --lookat whose argument is malformed
\* or missing.
Malformed(av) ==
    \E i \in 1..Len(av) :
        \/ av[i].text = "--screen=" /\ ~WellFormedScreen(av[i].val)
        \/ av[i].text = "--lookat=" /\ ~WellFormedLookat(av[i].val)
        \/ /\ av[i].text = "--screen"
           /\ (i > 1 => av[i - 1].text \notin {"--screen", "--lookat"})
           /\ (i = Len(av) \/ ~WellFormedScreen(AsValue(av[i + 1])))
        \/ /\ av[i].text = "--lookat"
           /\ (i > 1 => av[i - 1].text \notin {"--screen", "--lookat"})
           /\ (i = Len(av) \/ ~WellFormedLookat(AsValue(av[i + 1])))

\* C18: with a malformed --screen or --lookat argument main() reports the
\* error and returns before init_data is registered and distributed, before
\* the VNC client is initialized and before the loop.
C18_MalformedArgumentIsFatal ==
    Malformed(argv) =>
        /\ pc \in {"options", "exit_failure"}
        /\ init_data = << >>
        /\ ~vnc_client

\* C19: the configuration that is distributed has no degenerate vector: no
\* head matrix computed from an eye in the center or from an up vector along
\* the viewing direction, and no cylinder with a zero up vector.
C19_DegenerateVectorsRejected ==
    init_data # << >> =>
        /\ ~IsNaN(init_data[1].head_matrix.s)
        /\ ~IsNaN(init_data[1].head_matrix.u)
        /\ ~IsNaN(init_data[1].head_matrix.view)
        /\ init_data[1].screen = "screen_cylinder" =>
              \E i \in 4..6 : init_data[1].cylinder[i][1] # 0

\* C20: every iteration of the loop that has started goes on to its commit
\* and to the clear of vnc_dirty_rectangles, whether a message arrives or not,
\* unless main() ends the session in it: by a failed HandleRFBServerMessage, or
\* by the read of getInstanceData outside the framebuffer that ends the
\* process.
C20_IterationReachesCommitAndClear ==
    \A n \in 1..MaxFrames :
        (pc = "wait" /\ iter = n) ~>
            \/ /\ pc = "loop" /\ iter = n
               /\ Len(frames) = n
               /\ frame_data.vnc_dirty_rectangles = << >>
            \/ pc \in {"exit_failure", "crashed"}

\* The second iteration has committed and cleared without any message of the
\* source after rfbInitClient.
C20_Witness ==
    /\ pc = "loop"
    /\ iter = 2
    /\ events = 1
    /\ Len(frames) = 2
    /\ frame_data.vnc_dirty_rectangles = << >>

\* Slave instance rep equals master instance m in size and in its whole
\* framebuffer.
EqualEverywhere(rep, m) ==
    /\ rep.vnc_width = m.vnc_width
    /\ rep.vnc_height = m.vnc_height
    /\ rep.vnc_framebuffer = m.vnc_framebuffer

\* The pixels of instance m outside all of its dirty rectangles.
Untransmitted(m) ==
    { << x, y >> \in (0..(m.vnc_width - 1)) \X (0..(m.vnc_height - 1)) :
        \A i \in 1..Len(m.vnc_dirty_rectangles) : ~InRect(m.vnc_dirty_rectangles[i], x, y) }

\* C21: a slave instance that has applied the versions up to a committed one,
\* in order, has the width, the height and the whole framebuffer that the
\* master had at that commit, also outside the rectangles of that version.
C21_ReplicaEqualsMasterEverywhere ==
    \A p \in Pipes :
        pipe_version[p] >= 1 =>
            EqualEverywhere(pipe_frame_data[p], versions[pipe_version[p]].fd)

\* A pipe has applied the second commit, whose master has a changed pixel
\* outside its rectangles: the pixel was transmitted by the first commit.
C21_Witness ==
    \E p \in Pipes :
        /\ pipe_version[p] = 3
        /\ pipe_frame[p] = 2
        /\ LET m == versions[3].fd
           IN  /\ m.vnc_dirty_rectangles # << >>
               /\ \E q \in Untransmitted(m) :
                     /\ PixelAt(m, q[1], q[2]) = 1
                     /\ PixelAt(pipe_frame_data[p], q[1], q[2]) = 1

\* Version k has another width or height than the version before it.
DimensionsChanged(k) ==
    \/ versions[k].fd.vnc_width # versions[k - 1].fd.vnc_width
    \/ versions[k].fd.vnc_height # versions[k - 1].fd.vnc_height

\* C22: a committed version whose width or height differs from the version
\* before it transmits {0, 0, width, height} of its own size as its first
\* rectangle, and the pixels transmitted with that rectangle are the whole
\* framebuffer of the master, so that a slave instance that reallocates has
\* every pixel written before the later rectangles.
C22_DimensionChangeFullRectFirst ==
    \A k \in Committed :
        DimensionsChanged(k) =>
            LET v == versions[k]
                n == v.fd.vnc_width * v.fd.vnc_height
            IN  /\ v.os[HeaderLen] >= 1
                /\ Transmitted(v)[1] = FullRect(v.fd.vnc_width, v.fd.vnc_height)
                /\ SubSeq(v.os, HeaderLen + 5, HeaderLen + 4 + n) = v.fd.vnc_framebuffer

\* The second commit has another size than the first and transmits an update
\* rectangle after the full rectangle.
C22_Witness ==
    /\ Len(versions) = 3
    /\ DimensionsChanged(3)
    /\ versions[2].fd.vnc_width * versions[2].fd.vnc_height
           = versions[3].fd.vnc_width * versions[3].fd.vnc_height
    /\ Len(Transmitted(versions[3])) = 2
    /\ Transmitted(versions[3])[1] = FullRect(versions[3].fd.vnc_width,
                                              versions[3].fd.vnc_height)

\* The rectangle r is one of the rectangles transmitted by version v.
IsTransmitted(v, r) == \E n \in 1..Len(Transmitted(v)) : Transmitted(v)[n] = r

\* C23: vnc_dirty_rectangles changes only in the callbacks of rfbInitClient
\* and of HandleRFBServerMessage, and in the clear that ends an iteration,
\* never between the commit and that clear; and of the callbacks since the
\* previous commit, every rectangle that is not followed by a resize is
\* transmitted by the next committed version, and one that is followed by a
\* resize is covered by the full rectangle of the last resize, which is
\* transmitted.
C23_NoRecordedChangeLost ==
    /\ [](\A k \in Committed :
            LET v == versions[k]
                l == v.log
            IN  \A i \in 1..Len(l) :
                   IF \E j \in (i + 1)..Len(l) : IsResize(l[j])
                   THEN IsTransmitted(v, l[LastResize(l)].r)
                   ELSE IsTransmitted(v, l[i].r))
    /\ [][frame_data'.vnc_dirty_rectangles # frame_data.vnc_dirty_rectangles =>
            \/ pc \in {"vnc_init", "handle"}
            \/ pc = "clear" /\ frame_data'.vnc_dirty_rectangles = << >>]_vars

\* The first commit follows an update and then a resize in the polling step:
\* the rectangle of the update is not transmitted, the full rectangle of the
\* resize is.
C23_Witness ==
    /\ Len(versions) = 2
    /\ pc = "clear"
    /\ Len(versions[2].log) = 3
    /\ ~IsResize(versions[2].log[2])
    /\ IsResize(versions[2].log[3])
    /\ ~IsTransmitted(versions[2], versions[2].log[2].r)
    /\ Transmitted(versions[2]) = << versions[2].log[3].r >>

\* Rectangle r lies within a desktop of width w and height h.
Within(r, w, h) == 0 <= r.x /\ 0 <= r.y /\ r.x + r.w <= w /\ r.y + r.h <= h

\* The width and height in force when callback i of the log of version k was
\* made: those of the last resize before it, or of the version before k.
DimsAt(k, i) ==
    LET l == versions[k].log
        J == { j \in 1..(i - 1) : IsResize(l[j]) }
    IN  IF J = {}
        THEN << versions[k - 1].fd.vnc_width, versions[k - 1].fd.vnc_height >>
        ELSE LET j == CHOOSE n \in J : \A o \in J : o <= n
             IN  << l[j].r.w, l[j].r.h >>

\* Every update since the commit before version k was reported within the
\* desktop of its time.
ReportedWithin(k) ==
    \A i \in 1..Len(versions[k].log) :
        ~IsResize(versions[k].log[i]) =>
            Within(versions[k].log[i].r, DimsAt(k, i)[1], DimsAt(k, i)[2])

\* C24: when the updates since the previous commit were reported within the
\* desktop of their time, every rectangle a committed version transmits lies
\* within the width and height of that version, and getInstanceData has read
\* no pixel outside the framebuffer, also after a resize to a smaller desktop.
C24_CommittedRectsWithinDesktop ==
    \A k \in Committed :
        ReportedWithin(k) =>
            LET v == versions[k]
            IN  /\ \A n \in 1..Len(Transmitted(v)) :
                      Within(Transmitted(v)[n], v.fd.vnc_width, v.fd.vnc_height)
                /\ Holes(v.os) = {}

\* An update of a 2x2 desktop that does not fit a 1x1 desktop was followed by
\* the resize to 1x1 in the same polling step, and the commit transmits the
\* 1x1 rectangle only.
C24_Witness ==
    /\ Len(versions) = 2
    /\ ReportedWithin(2)
    /\ Len(versions[2].log) = 3
    /\ ~IsResize(versions[2].log[2])
    /\ DimsAt(2, 2) = << 2, 2 >>
    /\ ~Within(versions[2].log[2].r, 1, 1)
    /\ IsResize(versions[2].log[3])
    /\ versions[2].fd.vnc_width = 1 /\ versions[2].fd.vnc_height = 1
    /\ Transmitted(versions[2]) = << FullRect(1, 1) >>

\* The canvas rectangle of frame_data is the one startFrame computes for the
\* width and height frame_data has now.
CanvasCurrent ==
    \E surf \in Surfaces :
        frame_data.canvas = CanvasFit(frame_data.vnc_width, frame_data.vnc_height, surf)

\* The pointer message for event e mapped with instance fd.
PointerMessage(e, fd) ==
    LET p == eqptr_to_rfbptr(e, e.pvp, e.vp, fd.canvas, fd.vnc_width, fd.vnc_height)
    IN  SendPointerEvent(p.x, p.y, p.buttons)

\* C25: in canvas mode, when finishFrame handles the events the canvas
\* rectangle is the one computed from the width and height in force; an
\* event is handled only then, a pointer event is mapped with that rectangle
\* and that width and height; and no callback changes them between
\* startFrame and the end of finishFrame.
C25_PointerMappedWithCurrentCanvas ==
    /\ []((pc = "finish" /\ screen = "screen_canvas") => CanvasCurrent)
    /\ [][sent' # sent =>
            /\ pc = "finish" /\ pc' = "finish"
            /\ frame_data' = frame_data
            /\ sent'.msg.type = "pointer" =>
                  /\ CanvasCurrent
                  /\ sent'.msg = PointerMessage(sent'.event, frame_data)]_vars
    /\ [][pc = "finish" =>
            /\ frame_data'.vnc_width = frame_data.vnc_width
            /\ frame_data'.vnc_height = frame_data.vnc_height
            /\ frame_data'.canvas = frame_data.canvas]_vars

\* In the second iteration a resize changed the desktop and its canvas
\* rectangle, and a pointer motion was mapped with the new rectangle to a
\* position other than the one the rectangle of the first iteration gives.
C25_Witness ==
    /\ pc = "finish"
    /\ iter = 2
    /\ Len(versions) = 3
    /\ HasResize(versions[3].log)
    /\ frame_data.canvas # versions[2].fd.canvas
    /\ sent.msg.type = "pointer"
    /\ sent.msg = PointerMessage(sent.event, frame_data)
    /\ sent.msg # PointerMessage(sent.event, versions[2].fd)

\* C26: for every window, tex_updated is false whenever the window is about
\* to start a frame; and from its frameStart of a frame until its frameFinish,
\* that is at the time the channels draw, frameStart found the flag false
\* and uploaded exactly once in this frame, after the pipe synced its replica
\* for the frame, the texture exists, its width and height are the replica's
\* desktop width and height, and it holds the replica's whole framebuffer.
C26_WindowUploadsOncePerFrame ==
    \A p \in Pipes :
        LET win == window[p]
            fd == pipe_frame_data[p]
        IN  /\ win.pc = "idle" => ~win.tex_updated
            /\ win.pc \in {"draw", "finish"} =>
                  /\ ~win.entry_updated
                  /\ win.uploads = 1
                  /\ win.frame = pipe_frame[p]
                  /\ pipe_version[p] >= frames[win.frame]
                  /\ win.tex # 0
                  /\ win.tex_w = fd.vnc_width
                  /\ win.tex_h = fd.vnc_height
                  /\ win.texture = [w |-> fd.vnc_width, h |-> fd.vnc_height,
                                    pixels |-> fd.vnc_framebuffer]

\* C26: a window draws its second frame with the texture its first frame
\* created, after uploading a framebuffer that differs from the first
\* frame's.
C26_Witness ==
    \E p \in Pipes :
        /\ window[p].pc = "draw"
        /\ window[p].frame = 2
        /\ ~window[p].created
        /\ window[p].uploads = 1
        /\ window[p].texture.pixels # versions[frames[1]].fd.vnc_framebuffer
        /\ window[p].texture.pixels = versions[frames[2]].fd.vnc_framebuffer

====
